---- MODULE Spec2Model ----
(***************************************************************************)
(* Model of the report publication checker.                                *)
(*                                                                         *)
(*   reportMonitor.py      the monitor: one run of __main__ loads the three *)
(*                         tables, takes in the publications feed, appends *)
(*                         one scan event, takes in the order paper,       *)
(*                         computes lateness, matches order papers and     *)
(*                         writes the tables back.                         *)
(*   parliament_reports.py the earlier script: one call of                 *)
(*                         filter_and_process_reports does intake, scan    *)
(*                         recording and lateness on its own two files.    *)
(*                                                                         *)
(* Text is modelled as a sequence of characters where the code splits,     *)
(* joins or strips it (publication identifiers, the identifier list of a   *)
(* scan); a timestamp is an integer number of ticks, TicksPerDay to the day,  *)
(* so that a date and a clock time add up to a timestamp.                  *)
(***************************************************************************)
EXTENDS Integers, Sequences, FiniteSets, TLC

\* ---------------------------------------------------------------- bounds
MaxRuns == 3
MaxTime == 3
MaxRows == 1
MaxListing == 2
MaxDate == 2
OrderPaperRuns == 2
TicksPerDay == 2
MaxAttempts == 3

Times == 0..MaxTime
DateOf(t) == t \div TicksPerDay

VARIABLES
    reportsFile,        \* docs/Reports.csv       (monitor)
    scansFile,          \* docs/Scans.csv         (monitor)
    orderPapersFile,    \* docs/Order Papers.csv  (monitor)
    all_reports,        \* __main__'s in-memory tables
    all_scans,
    all_order_papers,
    pc,                 \* position of the poll: idle, orderpapers, lateness,
                        \* match, write (monitor), pr (parliament_reports)
    now,                \* datetime.now() read by the current poll
    feed,               \* data['items'] returned to the current poll
    new_ids,            \* new_scan_ids returned by the monitor's intake
    new_rows,           \* rows_to_add returned by the monitor's intake
    outcome,            \* of the monitor's last run: none, completed, aborted
    runs,               \* number of polls so far
    match_now,          \* datetime.now() read by the matcher when it last ran
    wall_clock,         \* the latest reading of datetime.now() by any step
    csvReports,         \* reports.csv  (parliament_reports.py)
    csvScans,           \* scans.csv    (parliament_reports.py)
    call,               \* a function called on its own: its name and arguments
    ret                 \* what that call gave: nothing yet, a value, an exception

vars == <<reportsFile, scansFile, orderPapersFile, all_reports, all_scans,
          all_order_papers, pc, now, feed, new_ids, new_rows, outcome, runs,
          match_now, wall_clock, csvReports, csvScans, call, ret>>

\* ------------------------------------------------------ calls on their own
\* No function is called on its own; what a call gives
NoCall == [fn |-> ""]
NoReturn == [kind |-> "none"]
Returned(v) == [kind |-> "return", v |-> v]
Raised(e) == [kind |-> "raise", e |-> e]

\* ------------------------------------------------------------ text helpers
\* str.strip(): drop leading and trailing blanks.
RECURSIVE Strip(_)
Strip(s) ==
    IF s # <<>> /\ Head(s) = " " THEN Strip(Tail(s))
    ELSE IF s # <<>> /\ s[Len(s)] = " " THEN Strip(SubSeq(s, 1, Len(s) - 1))
    ELSE s

\* str.split(','): the segments between commas (one segment when there is none).
RECURSIVE SplitComma(_)
SplitComma(s) ==
    IF \A i \in 1..Len(s) : s[i] # "," THEN <<s>>
    ELSE LET k == CHOOSE i \in 1..Len(s) :
                      s[i] = "," /\ \A j \in 1..(i - 1) : s[j] # ","
         IN  <<SubSeq(s, 1, k - 1)>> \o SplitComma(SubSeq(s, k + 1, Len(s)))

\* ', '.join(new_scan_ids) if new_scan_ids else ''
RECURSIVE JoinIds(_)
JoinIds(ids) ==
    IF ids = <<>> THEN <<>>
    ELSE IF Len(ids) = 1 THEN ids[1]
    ELSE ids[1] \o <<",", " ">> \o JoinIds(Tail(ids))

\* [f(x) for x in seq if keep(x)] for the two list comprehensions on identifiers
RECURSIVE StripAll(_)
StripAll(segs) ==
    IF segs = <<>> THEN <<>> ELSE <<Strip(Head(segs))>> \o StripAll(Tail(segs))

RECURSIVE DropEmpty(_)
DropEmpty(segs) ==
    IF segs = <<>> THEN <<>>
    ELSE IF Head(segs) = <<>> THEN DropEmpty(Tail(segs))
    ELSE <<Head(segs)>> \o DropEmpty(Tail(segs))

Range(s) == {s[i] : i \in 1..Len(s)}

\* F(e), e being evaluated once, before F
Eval(F(_), e) == CHOOSE v \in {F(x) : x \in {e}} : TRUE

\* reportMonitor.py: [x.strip() for x in ids_str.split(',') if x.strip()] if ids_str else []
ParseIds(ids_str) ==
    IF Strip(ids_str) = <<>> THEN <<>>
    ELSE DropEmpty(StripAll(SplitComma(Strip(ids_str))))

\* parliament_reports.py: [pid.strip() for pid in pub_ids_str.split(',')] if pub_ids_str else []
PRParseIds(pub_ids_str) ==
    IF Strip(pub_ids_str) = <<>> THEN <<>>
    ELSE StripAll(SplitComma(Strip(pub_ids_str)))

\* str(timedelta): never the empty string; '' is the unset lateness field
TimedeltaStr(d) == <<d>>
Unset == <<>>

\* ------------------------------------------------------------------ inputs
\* Publication identifiers as str(item.get('id', '')) renders them; <<>> is an
\* item without an identifier.
NoId == <<>>
Id1 == <<"1">>
Id2 == <<"2">>
Id3 == <<"1", "2">>

\* item['publicationStartDate']: absent, not ISO-8601, or the instant t
NoStart == [s |-> "", t |-> 0]
BadStart == [s |-> "junk", t |-> 0]
IsoStart(t) == [s |-> "iso", t |-> t]

\* Items the publications feed can return.  The same identifier can come
\* back with other attributes in a later poll.
ItemA  == [id |-> Id1,  house |-> "Commons", start |-> IsoStart(0), hc |-> "10"]
ItemB0 == [id |-> Id2,  house |-> "Joint",   start |-> NoStart,     hc |-> "11"]
ItemB  == [id |-> Id2,  house |-> "Joint",   start |-> IsoStart(1), hc |-> "11"]
ItemL  == [id |-> Id3,  house |-> "Lords",   start |-> IsoStart(0), hc |-> ""]
ItemJ  == [id |-> Id3,  house |-> "Commons", start |-> BadStart,    hc |-> ""]
ItemN  == [id |-> NoId, house |-> "Commons", start |-> IsoStart(1), hc |-> ""]

SeqsUpTo(S, n) == UNION {[1..k -> S] : k \in 0..n}

\* data['items'] of one poll, for the three specifications
Feeds ==
    { <<>>, <<ItemA>>, <<ItemB0>>, <<ItemB>>, <<ItemL>>, <<ItemJ>>, <<ItemN>>,
      <<ItemA, ItemA>>, <<ItemB, ItemA>>, <<ItemL, ItemB0>> }
LatenessFeeds == { <<>>, <<ItemA>>, <<ItemB>> }
OrderPaperFeeds == { <<>>, <<ItemA>> }

\* ------------------------------------------------- publication intake
\* get_existing_ids_from_csv(reports_file, 'Publication ID')
get_existing_ids_from_csv(rows) ==
    {Strip(rows[i].id) : i \in 1..Len(rows)} \ {<<>>}

\* (variant: only the latest scan row is read)
get_scanned_publication_ids_LastRow(scans) ==
    IF scans = <<>> THEN {} ELSE Range(ParseIds(scans[Len(scans)].ids))

\* reportMonitor.get_scanned_publication_ids
get_scanned_publication_ids(scans) ==
    UNION {Range(ParseIds(scans[i].ids)) : i \in 1..Len(scans)}

\* parliament_reports.get_scanned_publication_ids
PR_get_scanned_publication_ids(scans) ==
    UNION {Range(PRParseIds(scans[i].ids)) : i \in 1..Len(scans)}

\* datetime.fromisoformat(...) succeeds
StartParses(item) == item.start.s = "iso"

\* The dictionary appended to rows_to_add
ReportRow(item) ==
    [id |-> item.id, hc |-> item.hc, house |-> item.house,
     pub |-> item.start.t, lateMin |-> Unset, lateMax |-> Unset]

\* (variant: the house filter is left out)
RECURSIVE ProcessItems_AnyHouse(_, _, _, _, _)
ProcessItems_AnyHouse(items, scanned_ids, existing_ids, rows_to_add, new_scan_ids) ==
    IF items = <<>> THEN [rows |-> rows_to_add, ids |-> new_scan_ids]
    ELSE LET item == Head(items)
             pub_id == item.id
             ids2 == IF pub_id # <<>> /\ pub_id \notin scanned_ids
                     THEN Append(new_scan_ids, pub_id) ELSE new_scan_ids
             rows2 == IF pub_id \in existing_ids THEN rows_to_add
                      ELSE IF ~StartParses(item) THEN rows_to_add
                      ELSE Append(rows_to_add, ReportRow(item))
         IN  ProcessItems_AnyHouse(Tail(items), scanned_ids, existing_ids, rows2, ids2)

\* (variant: an identifier is recorded as new only when its item gives a row)
RECURSIVE ProcessItems_IdsOfRows(_, _, _, _, _)
ProcessItems_IdsOfRows(items, scanned_ids, existing_ids, rows_to_add, new_scan_ids) ==
    IF items = <<>> THEN [rows |-> rows_to_add, ids |-> new_scan_ids]
    ELSE LET item == Head(items)
             pub_id == item.id
             kept == /\ pub_id \notin existing_ids
                     /\ item.house \in {"Commons", "Joint"}
                     /\ StartParses(item)
             ids2 == IF kept /\ pub_id # <<>> /\ pub_id \notin scanned_ids
                     THEN Append(new_scan_ids, pub_id) ELSE new_scan_ids
             rows2 == IF kept THEN Append(rows_to_add, ReportRow(item)) ELSE rows_to_add
         IN  ProcessItems_IdsOfRows(Tail(items), scanned_ids, existing_ids, rows2, ids2)

\* The loop over data['items'] of filter_and_process_reports (the same text
\* in both scripts): scanned_ids and existing_ids are read once, before it.
RECURSIVE ProcessItems(_, _, _, _, _)
ProcessItems(items, scanned_ids, existing_ids, rows_to_add, new_scan_ids) ==
    IF items = <<>> THEN [rows |-> rows_to_add, ids |-> new_scan_ids]
    ELSE LET item == Head(items)
             pub_id == item.id
             ids2 == IF pub_id # <<>> /\ pub_id \notin scanned_ids
                     THEN Append(new_scan_ids, pub_id) ELSE new_scan_ids
             rows2 == IF pub_id \in existing_ids THEN rows_to_add
                      ELSE IF item.house \notin {"Commons", "Joint"} THEN rows_to_add
                      ELSE IF ~StartParses(item) THEN rows_to_add
                      ELSE Append(rows_to_add, ReportRow(item))
         IN  ProcessItems(Tail(items), scanned_ids, existing_ids, rows2, ids2)

\* reportMonitor.filter_and_process_reports: (rows_to_add, new_scan_ids)
filter_and_process_reports(items, reports_file, scans_file) ==
    ProcessItems(items, get_scanned_publication_ids(scans_file),
                 get_existing_ids_from_csv(reports_file), <<>>, <<>>)

\* The scan record __main__ and record_scan build
ScanRecord(t, ids) == [t |-> t, ids |-> JoinIds(ids)]

\* ----------------------------------------------------------- lateness
\* scan_records: datetime and the parsed identifier list of each scan row
ScanRecords(scans) ==
    [i \in 1..Len(scans) |-> [t |-> scans[i].t, pub_ids |-> ParseIds(scans[i].ids)]]

\* (variant: the ledger is read newest event first)
PRScanRecords_NewestFirst(scans) ==
    [i \in 1..Len(scans) |->
        [t |-> scans[Len(scans) + 1 - i].t,
         pub_ids |-> PRParseIds(scans[Len(scans) + 1 - i].ids)]]

PRScanRecords(scans) ==
    [i \in 1..Len(scans) |-> [t |-> scans[i].t, pub_ids |-> PRParseIds(scans[i].ids)]]

\* list.sort(key=datetime): stable
RECURSIVE InsertByDatetime(_, _)
InsertByDatetime(sorted, rec) ==
    IF sorted = <<>> THEN <<rec>>
    ELSE IF Head(sorted).t <= rec.t
         THEN <<Head(sorted)>> \o InsertByDatetime(Tail(sorted), rec)
         ELSE <<rec>> \o sorted

RECURSIVE SortByDatetime(_)
SortByDatetime(recs) ==
    Eval(LAMBDA r :
            IF r = <<>> THEN <<>>
            ELSE Eval(LAMBDA sorted : InsertByDatetime(sorted, r[Len(r)]),
                      SortByDatetime(SubSeq(r, 1, Len(r) - 1))),
         recs)

\* Index of the first scan record whose pub_ids holds pub_id, 0 when none
FirstScanWith(scan_records, pub_id) ==
    IF \E i \in 1..Len(scan_records) : pub_id \in Range(scan_records[i].pub_ids)
    THEN CHOOSE i \in 1..Len(scan_records) :
             /\ pub_id \in Range(scan_records[i].pub_ids)
             /\ \A j \in 1..(i - 1) : pub_id \notin Range(scan_records[j].pub_ids)
    ELSE 0

\* (variant: the delta is taken from the first scan record of the list)
LateByMax_FirstRecord(scan_records, pub_id, pub_datetime) ==
    LET i == FirstScanWith(scan_records, pub_id)
    IN  IF i = 0 THEN Unset
        ELSE TimedeltaStr(scan_records[1].t - pub_datetime)

\* 'Late by max': the first scan that includes the identifier
LateByMax(scan_records, pub_id, pub_datetime) ==
    LET i == FirstScanWith(scan_records, pub_id)
    IN  IF i = 0 THEN Unset
        ELSE TimedeltaStr(scan_records[i].t - pub_datetime)

\* for j in range(i - 1, -1, -1): keep overwriting last_scan_before while the
\* scan is after publication, stop at the first that is not
RECURSIVE WalkBack(_, _, _, _)
WalkBack(scan_records, j, pub_datetime, last_scan_before) ==
    IF j < 1 THEN last_scan_before
    ELSE IF scan_records[j].t > pub_datetime
         THEN WalkBack(scan_records, j - 1, pub_datetime, <<scan_records[j]>>)
         ELSE last_scan_before

\* 'Late by min'
LateByMin(scan_records, pub_id, pub_datetime) ==
    LET i == FirstScanWith(scan_records, pub_id)
        last_scan_before ==
            IF i = 0 THEN <<>> ELSE WalkBack(scan_records, i - 1, pub_datetime, <<>>)
    IN  IF last_scan_before = <<>> THEN Unset
        ELSE TimedeltaStr(last_scan_before[1].t - pub_datetime)

\* (variant: only the scan event of the current run is looked at)
calculate_lateness_LatestScanOnly(reports, scans) ==
    LET scan_records == ScanRecords(SubSeq(scans, Len(scans), Len(scans)))
    IN  [i \in 1..Len(reports) |->
            LET pub_id == Strip(reports[i].id)
            IN  [reports[i] EXCEPT
                    !.lateMax = LateByMax(scan_records, pub_id, reports[i].pub),
                    !.lateMin = LateByMin(scan_records, pub_id, reports[i].pub)]]

\* reportMonitor.calculate_lateness: every report is recomputed over the
\* scan records sorted by datetime
calculate_lateness(reports, scans) ==
    Eval(LAMBDA scan_records :
            Eval(LAMBDA rows :
                    [i \in 1..Len(rows) |->
                        LET pub_id == Strip(rows[i].id)
                        IN  [rows[i] EXCEPT
                                !.lateMax = LateByMax(scan_records, pub_id, rows[i].pub),
                                !.lateMin = LateByMin(scan_records, pub_id, rows[i].pub)]],
                 reports),
         SortByDatetime(ScanRecords(scans)))

\* parliament_reports.calculate_lateness: reports with 'Late by max' set or
\* without an identifier are skipped; the scan records stay in file order
PR_calculate_lateness(reports, scans) ==
    Eval(LAMBDA scan_records :
            Eval(LAMBDA rows :
                    [i \in 1..Len(rows) |->
                        LET pub_id == Strip(rows[i].id)
                        IN  IF rows[i].lateMax # Unset THEN rows[i]
                            ELSE IF pub_id = <<>> THEN rows[i]
                            ELSE [rows[i] EXCEPT
                                    !.lateMax = LateByMax(scan_records, pub_id, rows[i].pub),
                                    !.lateMin = LateByMin(scan_records, pub_id, rows[i].pub)]],
                 reports),
         PRScanRecords(scans))

\* ------------------------------------------- business-document lookup
\* One entry of the "Results" of the House Papers listing: BusinessDate (<<>>
\* when absent or not a date), Notes (absent, holding target_notes_text, or
\* other text) and Id (<<>> when absent)
ListingItems ==
    [bd : {<<>>} \cup {<<d>> : d \in 0..MaxDate},
     notes : {"none", "marked", "other"},
     id : {<<>>, <<7>>, <<8>>}]

\* Listings, newest first or in any other order, pages put end to end;
\* documents have different identifiers
Listings ==
    {l \in SeqsUpTo(ListingItems, MaxListing) :
        \A i, j \in 1..Len(l) : (i < j /\ l[i].id # <<>>) => l[i].id # l[j].id}

\* target_notes_text in notes
NotesMatch(item) == item.notes = "marked"

\* The loop over the results of get_document_id_for_date, pages in turn, up
\* to the empty page that ends the listing; closest_after is <<>> (None) or
\* <<[bd, id]>>; the value is <<>> for None, else <<Id>>
RECURSIVE ScanResults(_, _, _)
ScanResults(results, target, closest_after) ==
    IF results = <<>> THEN <<>>
    ELSE LET item == Head(results)
         IN  IF item.bd = <<>> THEN ScanResults(Tail(results), target, closest_after)
             ELSE IF item.bd[1] < target /\ NotesMatch(item)
                  THEN IF closest_after # <<>> THEN closest_after[1].id ELSE <<>>
             ELSE IF item.bd[1] = target /\ NotesMatch(item) THEN item.id
             ELSE IF /\ item.bd[1] > target /\ NotesMatch(item)
                     /\ item.id # <<>>
                     /\ (closest_after = <<>> \/ item.bd[1] < closest_after[1].bd)
                  THEN ScanResults(Tail(results), target,
                                   <<[bd |-> item.bd[1], id |-> item.id]>>)
             ELSE ScanResults(Tail(results), target, closest_after)

\* get_document_id_for_date(target_date) when every page is fetched
get_document_id_for_date(target, results) == ScanResults(results, target, <<>>)

\* ------------------------------------------------------- network calls
\* What one request is answered with: a status code, or "exception" when
\* requests raises RequestException before there is a response
StatusCodes == {"200", "404", "429", "500", "502", "503", "504", "exception"}
Transient == {"429", "500", "502", "503", "504"}

\* fetch_json_data(url, max_retries): the while loop, responses[k] being the
\* answer to the k-th request; gives the number of requests and "json" for
\* response.json(), "empty" for {}
RECURSIVE FetchLoop(_, _, _, _)
FetchLoop(responses, max_retries, attempt, requests) ==
    IF ~(attempt < max_retries) THEN [requests |-> requests, result |-> "empty"]
    ELSE LET status_code == responses[requests + 1]
         IN  IF status_code = "exception"
             THEN [requests |-> requests + 1, result |-> "empty"]
             ELSE IF status_code = "200"
             THEN [requests |-> requests + 1, result |-> "json"]
             ELSE IF status_code = "429"
             THEN IF attempt + 1 < max_retries
                  THEN FetchLoop(responses, max_retries, attempt + 1, requests + 1)
                  ELSE [requests |-> requests + 1, result |-> "empty"]
             ELSE [requests |-> requests + 1, result |-> "empty"]
fetch_json_data(responses, max_retries) == FetchLoop(responses, max_retries, 0, 0)

\* get_document_id_for_date: the for loop over attempts that fetches one
\* page; "json" for the page's data, "raise" when the exception of the last
\* attempt, or RuntimeError, leaves the function
RECURSIVE PageLoop(_, _, _)
PageLoop(responses, retry_attempts, attempt) ==
    IF attempt > retry_attempts
    THEN [requests |-> retry_attempts, result |-> "raise"]
    ELSE LET status_code == responses[attempt]
         IN  IF status_code \in Transient
             THEN PageLoop(responses, retry_attempts, attempt + 1)
             ELSE IF status_code = "200"
             THEN [requests |-> attempt, result |-> "json"]
             ELSE IF attempt = retry_attempts
             THEN [requests |-> attempt, result |-> "raise"]
             ELSE PageLoop(responses, retry_attempts, attempt + 1)
get_page(responses, retry_attempts) == PageLoop(responses, retry_attempts, 1)

\* ------------------------------------------------------- the extractor
\* The text of a cell is a sequence of characters.
Digits == <<"0", "1", "2", "3", "4", "5", "6", "7", "8", "9">>
LowerCase ==
    <<"a", "b", "c", "d", "e", "f", "g", "h", "i", "j", "k", "l", "m", "n",
      "o", "p", "q", "r", "s", "t", "u", "v", "w", "x", "y", "z">>
UpperCase ==
    <<"A", "B", "C", "D", "E", "F", "G", "H", "I", "J", "K", "L", "M", "N",
      "O", "P", "Q", "R", "S", "T", "U", "V", "W", "X", "Y", "Z">>

IsDigit(c) == c \in Range(Digits)
IsAlpha(c) == c \in Range(LowerCase) \cup Range(UpperCase)
IsWord(c) == IsDigit(c) \/ IsAlpha(c) \/ c = "_"
IsSpace(c) == c = " "
DigitVal(c) == (CHOOSE i \in 1..10 : Digits[i] = c) - 1

\* str.lower()
LowerChar(c) ==
    IF c \in Range(UpperCase)
    THEN LowerCase[CHOOSE i \in 1..26 : UpperCase[i] = c] ELSE c
Lower(s) == [i \in 1..Len(s) |-> LowerChar(s[i])]

\* int() of a run of digits
RECURSIVE ToInt(_)
ToInt(ds) ==
    IF ds = <<>> THEN 0
    ELSE 10 * ToInt(SubSeq(ds, 1, Len(ds) - 1)) + DigitVal(ds[Len(ds)])

\* str.replace(old, new) for single characters
Replace(s, old, new) == [i \in 1..Len(s) |-> IF s[i] = old THEN new ELSE s[i]]

\* \b before s[i] (i = Len(s) + 1: at the end)
WordAt(s, i) == i >= 1 /\ i <= Len(s) /\ IsWord(s[i])
Boundary(s, i) == WordAt(s, i - 1) # WordAt(s, i)
DigitAt(s, i) == i >= 1 /\ i <= Len(s) /\ IsDigit(s[i])

\* \s* from s[q] on: the length of the run of blanks
RECURSIVE SpacesFrom(_, _)
SpacesFrom(s, q) ==
    IF q <= Len(s) /\ IsSpace(s[q]) THEN 1 + SpacesFrom(s, q + 1) ELSE 0

\* (am|pm) at s[r], any case
AmPmAt(s, r) ==
    /\ r >= 1 /\ r + 1 <= Len(s)
    /\ LowerChar(s[r]) \in {"a", "p"}
    /\ LowerChar(s[r + 1]) = "m"

\* The weekday names of _DATE_RE and the keys of _MONTHS, in lower case
WeekdayNames ==
    { <<"m", "o", "n">>, <<"t", "u", "e">>, <<"t", "u", "e", "s">>,
      <<"w", "e", "d">>, <<"t", "h", "u">>, <<"t", "h", "u", "r">>,
      <<"t", "h", "u", "r", "s">>, <<"f", "r", "i">>, <<"s", "a", "t">>,
      <<"s", "u", "n">>, <<"m", "o", "n", "d", "a", "y">>,
      <<"t", "u", "e", "s", "d", "a", "y">>,
      <<"w", "e", "d", "n", "e", "s", "d", "a", "y">>,
      <<"t", "h", "u", "r", "s", "d", "a", "y">>,
      <<"f", "r", "i", "d", "a", "y">>,
      <<"s", "a", "t", "u", "r", "d", "a", "y">>,
      <<"s", "u", "n", "d", "a", "y">> }
MONTHS ==
    { <<<<"j", "a", "n">>, 1>>, <<<<"j", "a", "n", "u", "a", "r", "y">>, 1>>,
      <<<<"f", "e", "b">>, 2>>,
      <<<<"f", "e", "b", "r", "u", "a", "r", "y">>, 2>>,
      <<<<"m", "a", "r">>, 3>>, <<<<"m", "a", "r", "c", "h">>, 3>>,
      <<<<"a", "p", "r">>, 4>>, <<<<"a", "p", "r", "i", "l">>, 4>>,
      <<<<"m", "a", "y">>, 5>>, <<<<"j", "u", "n">>, 6>>,
      <<<<"j", "u", "n", "e">>, 6>>, <<<<"j", "u", "l">>, 7>>,
      <<<<"j", "u", "l", "y">>, 7>>, <<<<"a", "u", "g">>, 8>>,
      <<<<"a", "u", "g", "u", "s", "t">>, 8>>, <<<<"s", "e", "p">>, 9>>,
      <<<<"s", "e", "p", "t">>, 9>>,
      <<<<"s", "e", "p", "t", "e", "m", "b", "e", "r">>, 9>>,
      <<<<"o", "c", "t">>, 10>>,
      <<<<"o", "c", "t", "o", "b", "e", "r">>, 10>>,
      <<<<"n", "o", "v">>, 11>>,
      <<<<"n", "o", "v", "e", "m", "b", "e", "r">>, 11>>,
      <<<<"d", "e", "c">>, 12>>,
      <<<<"d", "e", "c", "e", "m", "b", "e", "r">>, 12>> }

\* _TIME_RE from s[q] on, the hour and minutes being matched: \s* (am|pm)? \b,
\* the longest run of blanks first and, for each, the meridiem first
TimeTail(s, q) ==
    LET options ==
            {o \in (0..SpacesFrom(s, q)) \X BOOLEAN :
                /\ o[2] => AmPmAt(s, q + o[1])
                /\ Boundary(s, q + o[1] + (IF o[2] THEN 2 ELSE 0))}
    IN  IF options = {} THEN <<>>
        ELSE LET o == CHOOSE x \in options :
                          \A y \in options :
                              x[1] > y[1] \/ (x[1] = y[1] /\ (x[2] \/ ~y[2]))
             IN  <<[ampm |-> IF ~o[2] THEN ""
                             ELSE IF LowerChar(s[q + o[1]]) = "a" THEN "am" ELSE "pm",
                    end |-> q + o[1] + (IF o[2] THEN 2 ELSE 0)]>>

\* _TIME_RE at s[p] with an hour of n digits: the minutes first, then without
TimeWithHour(s, p, n) ==
    LET q == p + n
        h == ToInt(SubSeq(s, p, q - 1))
        withMinutes ==
            IF /\ q <= Len(s) /\ s[q] \in {":", "."}
               /\ DigitAt(s, q + 1) /\ DigitAt(s, q + 2)
            THEN TimeTail(s, q + 3) ELSE <<>>
        without == TimeTail(s, q)
    IN  IF withMinutes # <<>>
        THEN <<[start |-> p, end |-> withMinutes[1].end, h |-> h,
                m |-> <<ToInt(SubSeq(s, q + 1, q + 2))>>, ampm |-> withMinutes[1].ampm]>>
        ELSE IF without # <<>>
        THEN <<[start |-> p, end |-> without[1].end, h |-> h,
                m |-> <<>>, ampm |-> without[1].ampm]>>
        ELSE <<>>

\* _TIME_RE at s[p]: \b, then two digits of hour before one
TimeAt(s, p) ==
    IF ~(Boundary(s, p) /\ DigitAt(s, p)) THEN <<>>
    ELSE IF DigitAt(s, p + 1) /\ TimeWithHour(s, p, 2) # <<>>
         THEN TimeWithHour(s, p, 2)
         ELSE TimeWithHour(s, p, 1)

\* _TIME_RE.search(s): the leftmost match, <<>> when there is none; end is
\* the index after the match
RECURSIVE TimeSearchFrom(_, _)
TimeSearchFrom(s, p) ==
    IF p > Len(s) THEN <<>>
    ELSE IF TimeAt(s, p) # <<>> THEN TimeAt(s, p)
    ELSE TimeSearchFrom(s, p + 1)
TimeSearch(s) == Eval(LAMBDA norm : TimeSearchFrom(norm, 1), s)

\* (variant: 12 is added for either meridiem)
TimeOf_EitherMeridiem(found) ==
    IF found = <<>> THEN <<>>
    ELSE LET m == found[1]
             mm == IF m.m # <<>> THEN m.m[1] ELSE 0
             h == IF m.ampm # "" /\ m.h # 12 THEN m.h + 12 ELSE m.h
         IN  IF ~(0 <= m.h /\ m.h <= 23) /\ m.ampm = "" THEN <<>>
             ELSE IF ~(0 <= mm /\ mm <= 59) THEN <<>>
             ELSE IF ~(0 <= h /\ h <= 23) THEN <<>>
             ELSE <<[h |-> h, m |-> mm]>>

\* _parse_time(s): <<>> for "", else <<[h, m]>> for time(h, m)
TimeOf(found) ==
    IF found = <<>> THEN <<>>
    ELSE LET m == found[1]
             mm == IF m.m # <<>> THEN m.m[1] ELSE 0
             h == IF m.ampm = "pm" /\ m.h # 12 THEN m.h + 12 ELSE m.h
         IN  IF ~(0 <= m.h /\ m.h <= 23) /\ m.ampm = "" THEN <<>>
             ELSE IF ~(0 <= mm /\ mm <= 59) THEN <<>>
             ELSE IF ~(0 <= h /\ h <= 23) THEN <<>>
             ELSE <<[h |-> h, m |-> mm]>>
parse_time(s) ==
    Eval(TimeOf, TimeSearch(Replace(Replace(s, "MIDDOT", "."), ".", ":")))

\* cleaned: the text without its first _TIME_RE match, commas and runs of
\* blanks turned into one blank, stripped; kept as its list of words
IsSeparator(c) == IsSpace(c) \/ c = ","
RECURSIVE WordLen(_, _)
WordLen(s, i) ==
    IF i <= Len(s) /\ ~IsSeparator(s[i]) THEN 1 + WordLen(s, i + 1) ELSE 0
RECURSIVE WordsFrom(_, _)
WordsFrom(s, i) ==
    IF i > Len(s) THEN <<>>
    ELSE IF IsSeparator(s[i]) THEN WordsFrom(s, i + 1)
    ELSE <<SubSeq(s, i, i + WordLen(s, i) - 1)>> \o WordsFrom(s, i + WordLen(s, i))
Words(s) == Eval(LAMBDA text : WordsFrom(text, 1), s)

WithoutFirstTime(norm) ==
    Eval(LAMBDA found :
             IF found = <<>> THEN norm
             ELSE SubSeq(norm, 1, found[1].start - 1)
                  \o SubSeq(norm, found[1].end, Len(norm)),
         TimeSearch(norm))
Cleaned(s) ==
    Eval(LAMBDA norm : Words(WithoutFirstTime(norm)), Replace(s, ".", ":"))

\* _DATE_RE.match(cleaned): [weekday] day month [year] and nothing else;
\* <<>> when it does not match
AllDigits(w) == \A i \in 1..Len(w) : IsDigit(w[i])
AllAlpha(w) == \A i \in 1..Len(w) : IsAlpha(w[i])
DateMatchOf(rest) ==
    IF /\ Len(rest) \in {2, 3}
       /\ Len(rest[1]) \in {1, 2} /\ AllDigits(rest[1])
       /\ AllAlpha(rest[2])
       /\ Len(rest) = 3 => (Len(rest[3]) = 4 /\ AllDigits(rest[3]))
    THEN <<[day |-> rest[1], month |-> rest[2],
            year |-> IF Len(rest) = 3 THEN rest[3] ELSE <<>>]>>
    ELSE <<>>
DateMatch(cleaned) ==
    Eval(LAMBDA words :
             DateMatchOf(IF words # <<>> /\ Lower(Head(words)) \in WeekdayNames
                         THEN Tail(words) ELSE words),
         cleaned)

\* _MONTHS.get(month_name[:3], _MONTHS.get(month_name)): <<>> for None
MonthsGet(key) ==
    IF \E e \in MONTHS : e[1] = key
    THEN <<(CHOOSE e \in MONTHS : e[1] = key)[2]>> ELSE <<>>
MonthOf(month_name) ==
    LET key == SubSeq(month_name, 1, IF Len(month_name) < 3 THEN Len(month_name) ELSE 3)
    IN  IF MonthsGet(key) # <<>> THEN MonthsGet(key) ELSE MonthsGet(month_name)

\* datetime.date(year, month, day): raises ValueError unless the day exists
IsLeap(y) == (y % 4 = 0 /\ y % 100 # 0) \/ y % 400 = 0
DaysInMonth(y, m) ==
    IF m = 2 THEN (IF IsLeap(y) THEN 29 ELSE 28)
    ELSE IF m \in {4, 6, 9, 11} THEN 30 ELSE 31
DateExists(y, m, d) ==
    /\ y >= 1 /\ y <= 9999
    /\ m >= 1 /\ m <= 12
    /\ d >= 1 /\ d <= DaysInMonth(y, m)
Date(y, m, d) == [y |-> y, m |-> m, d |-> d]
\* (variant: the anchor date itself counts as before)
DateBefore_OrSame(a, b) ==
    \/ a.y < b.y
    \/ a.y = b.y /\ a.m < b.m
    \/ a.y = b.y /\ a.m = b.m /\ a.d <= b.d
\* candidate < op_date
DateBefore(a, b) ==
    \/ a.y < b.y
    \/ a.y = b.y /\ a.m < b.m
    \/ a.y = b.y /\ a.m = b.m /\ a.d < b.d

\* _parse_date(s, op_date): Returned(<<>>) for "", Returned(<<date>>), or
\* Raised("ValueError") when date() raises outside the try
DateOfMatch(found, op_date) ==
    IF found = <<>> THEN Returned(<<>>)
    ELSE LET day == ToInt(found[1].day)
             month == MonthOf(Lower(found[1].month))
             year_str == found[1].year
         IN  IF month = <<>> THEN Returned(<<>>)
             ELSE IF year_str # <<>>
             THEN IF DateExists(ToInt(year_str), month[1], day)
                  THEN Returned(<<Date(ToInt(year_str), month[1], day)>>)
                  ELSE Returned(<<>>)
             ELSE IF ~DateExists(op_date.y, month[1], day)
                  THEN Raised("ValueError")
                  ELSE LET year == IF DateBefore(Date(op_date.y, month[1], day), op_date)
                                   THEN op_date.y + 1 ELSE op_date.y
                       IN  IF DateExists(year, month[1], day)
                           THEN Returned(<<Date(year, month[1], day)>>)
                           ELSE Returned(<<>>)
parse_date(s, op_date) ==
    Eval(LAMBDA found : DateOfMatch(found, op_date), DateMatch(Cleaned(s)))

\* ------------------------------------------------- title splitter
\* parliament_reports.split_report_title.  The en dash and the em dash are
\* the characters "ENDASH" and "EMDASH".
IsDivider(c) == c \in {"-", "ENDASH", "EMDASH", ":"}

\* (variant: the last divider of the text)
LastDivider(s) ==
    IF \E i \in 1..Len(s) : IsDivider(s[i])
    THEN CHOOSE i \in 1..Len(s) :
             IsDivider(s[i]) /\ \A j \in (i + 1)..Len(s) : ~IsDivider(s[j])
    ELSE 0

\* Index of the divider of the leftmost match of \s*[-\u2013\u2014:]\s*, 0
\* when the text has none
FirstDivider(s) ==
    IF \E i \in 1..Len(s) : IsDivider(s[i])
    THEN CHOOSE i \in 1..Len(s) :
             IsDivider(s[i]) /\ \A j \in 1..(i - 1) : ~IsDivider(s[j])
    ELSE 0

\* The blanks just before s[k]
RECURSIVE SpacesBefore(_, _)
SpacesBefore(s, k) ==
    IF k > 1 /\ IsSpace(s[k - 1]) THEN 1 + SpacesBefore(s, k - 1) ELSE 0

\* re.split(divider_pattern, input_string, maxsplit=1)
SplitOnDivider(input_string) ==
    LET k == FirstDivider(input_string)
    IN  IF k = 0 THEN <<input_string>>
        ELSE << SubSeq(input_string, 1, k - 1 - SpacesBefore(input_string, k)),
                SubSeq(input_string, k + 1 + SpacesFrom(input_string, k + 1),
                       Len(input_string)) >>

\* re.match(r'^\d+(st|nd|rd|th)\s+(Special\s+)?Report$', left_part, re.IGNORECASE)
RECURSIVE DigitsFrom(_, _)
DigitsFrom(s, i) == IF DigitAt(s, i) THEN 1 + DigitsFrom(s, i + 1) ELSE 0
OrdinalMatch(left_part) ==
    LET n == DigitsFrom(left_part, 1)
        after == SubSeq(left_part, n + 3, Len(left_part))
        words == Lower(SubSeq(after, SpacesFrom(after, 1) + 1, Len(after)))
        report == <<"r", "e", "p", "o", "r", "t">>
        special == <<"s", "p", "e", "c", "i", "a", "l">>
    IN  /\ n >= 1
        /\ Len(left_part) >= n + 2
        /\ Lower(SubSeq(left_part, n + 1, n + 2)) \in
              {<<"s", "t">>, <<"n", "d">>, <<"r", "d">>, <<"t", "h">>}
        /\ SpacesFrom(after, 1) >= 1
        /\ \/ words = report
           \/ /\ Len(words) > 7
              /\ SubSeq(words, 1, 7) = special
              /\ SpacesFrom(words, 8) >= 1
              /\ SubSeq(words, 8 + SpacesFrom(words, 8), Len(words)) = report

\* split_report_title(input_string): (report_prefix, title)
PR_split_report_title(input_string) ==
    LET parts == SplitOnDivider(input_string)
    IN  IF Len(parts) # 2 THEN << <<>>, input_string >>
        ELSE IF OrdinalMatch(Strip(parts[1]))
             THEN << Strip(parts[1]), Strip(parts[2]) >>
             ELSE << <<>>, input_string >>

\* -------------------------------------------------------- order papers
\* A date or time column of Order Papers.csv: empty, well-formed, or other text
NoText == [s |-> "", v |-> 0]
JunkText == [s |-> "junk", v |-> 0]
DateStr(d) == [s |-> "ok", v |-> d]
TimeStr(c) == [s |-> "ok", v |-> c]

\* time(0, 1), the clock time recorded when the cell has none
SentinelTime == 1

\* Rows of the 'Committee Reports Published Today' table: the committee and
\* HC number cells and what _parse_date and _parse_time find in the date
\* cell (<<>> when they return "").
DocRows ==
    { [committee |-> "Ca", hc |-> "10", date |-> <<>>,  time |-> <<>>],
      [committee |-> "Ca", hc |-> "12", date |-> <<1>>, time |-> <<0>>],
      [committee |-> "Cb", hc |-> "",   date |-> <<0>>, time |-> <<1>>] }

\* What the business-document lookup and fetch hand to the intake: no
\* document, a page without the table, or the table with its Date paragraph
NoDocument == [kind |-> "none", date |-> <<>>, rows |-> <<>>]
NoTable == [kind |-> "notable", date |-> <<>>, rows |-> <<>>]
Tables(rowseqs) ==
    {[kind |-> "table", date |-> d, rows |-> rs] : d \in {<<>>, <<1>>}, rs \in rowseqs}

Docs == {NoDocument, NoTable} \cup Tables(SeqsUpTo(DocRows, MaxRows))
NoDocs == {NoDocument, NoTable}

\* existing_pairs: the (Committee Name, HC Number) pairs with both non-empty
ExistingPairs(existing_order_papers) ==
    { <<existing_order_papers[i].committee, existing_order_papers[i].hc>> :
        i \in {j \in 1..Len(existing_order_papers) :
                  /\ existing_order_papers[j].committee # ""
                  /\ existing_order_papers[j].hc # ""} }

\* (variant: a date or time that is not found is recorded as empty)
OrderPaperEntry_NoFallback(row, op_date) ==
    [committee |-> row.committee, hc |-> row.hc,
     date |-> IF row.date = <<>> THEN NoText ELSE DateStr(row.date[1]),
     time |-> IF row.time = <<>> THEN NoText ELSE TimeStr(row.time[1]),
     matched |-> ""]

\* rows_data.append({...}): str(pub_date) and str(pub_time) after the fallbacks
OrderPaperEntry(row, op_date) ==
    [committee |-> row.committee, hc |-> row.hc,
     date |-> DateStr(IF row.date = <<>> THEN op_date ELSE row.date[1]),
     time |-> TimeStr(IF row.time = <<>> THEN SentinelTime ELSE row.time[1]),
     matched |-> ""]

RECURSIVE ParseRows(_, _, _, _)
ParseRows(rows, existing_pairs, op_date, rows_data) ==
    IF rows = <<>> THEN rows_data
    ELSE LET row == Head(rows)
         IN  IF <<row.committee, row.hc>> \in existing_pairs
             THEN ParseRows(Tail(rows), existing_pairs, op_date, rows_data)
             ELSE ParseRows(Tail(rows), existing_pairs, op_date,
                            Append(rows_data, OrderPaperEntry(row, op_date)))

\* parse_committee_reports_published_today(tree, existing_order_papers)
parse_committee_reports_published_today(doc, existing_order_papers, today) ==
    IF doc.kind # "table" THEN <<>>
    ELSE LET op_date == IF doc.date = <<>> THEN today ELSE doc.date[1]
         IN  ParseRows(doc.rows, ExistingPairs(existing_order_papers), op_date, <<>>)

\* ------------------------------------------------------------- matcher
\* reports_hc_numbers
ReportsHcNumbers(reports) == {reports[i].hc : i \in 1..Len(reports)} \ {""}

\* datetime.strptime(f"{date} {time}", '%Y-%m-%d %H:%M:%S') succeeds
ExpectedParses(op_row) == op_row.date.s = "ok" /\ op_row.time.s = "ok"
ExpectedDatetime(op_row) == op_row.date.v * TicksPerDay + op_row.time.v

\* (variant: entries already Published or OP Error are evaluated again)
MatchRow_NoTerminalSkip(op_row, reports_hc_numbers, t) ==
    IF op_row.hc = "" THEN op_row
    ELSE IF op_row.hc \in reports_hc_numbers
         THEN [op_row EXCEPT !.matched = "Published"]
    ELSE IF op_row.date.s = "" \/ op_row.time.s = "" THEN op_row
    ELSE IF ~ExpectedParses(op_row) THEN op_row
    ELSE IF t > ExpectedDatetime(op_row)
         THEN [op_row EXCEPT !.matched = "Missing"]
         ELSE [op_row EXCEPT !.matched = "Due"]

\* (variant: now >= pub_datetime)
MatchRow_MissingAtNow(op_row, reports_hc_numbers, t) ==
    IF op_row.matched \in {"Published", "OP Error"} THEN op_row
    ELSE IF op_row.hc = "" THEN op_row
    ELSE IF op_row.hc \in reports_hc_numbers
         THEN [op_row EXCEPT !.matched = "Published"]
    ELSE IF op_row.date.s = "" \/ op_row.time.s = "" THEN op_row
    ELSE IF ~ExpectedParses(op_row) THEN op_row
    ELSE IF t >= ExpectedDatetime(op_row)
         THEN [op_row EXCEPT !.matched = "Missing"]
         ELSE [op_row EXCEPT !.matched = "Due"]

\* (variant: the comparison with now is the other way round)
MatchRow_MissingWhenAhead(op_row, reports_hc_numbers, t) ==
    IF op_row.matched \in {"Published", "OP Error"} THEN op_row
    ELSE IF op_row.hc = "" THEN op_row
    ELSE IF op_row.hc \in reports_hc_numbers
         THEN [op_row EXCEPT !.matched = "Published"]
    ELSE IF op_row.date.s = "" \/ op_row.time.s = "" THEN op_row
    ELSE IF ~ExpectedParses(op_row) THEN op_row
    ELSE IF t < ExpectedDatetime(op_row)
         THEN [op_row EXCEPT !.matched = "Missing"]
         ELSE [op_row EXCEPT !.matched = "Due"]

\* (variant: an entry without HC number is evaluated like the others)
MatchRow_NoHcSkip(op_row, reports_hc_numbers, t) ==
    IF op_row.matched \in {"Published", "OP Error"} THEN op_row
    ELSE IF op_row.hc \in reports_hc_numbers
         THEN [op_row EXCEPT !.matched = "Published"]
    ELSE IF op_row.date.s = "" \/ op_row.time.s = "" THEN op_row
    ELSE IF ~ExpectedParses(op_row) THEN op_row
    ELSE IF t > ExpectedDatetime(op_row)
         THEN [op_row EXCEPT !.matched = "Missing"]
         ELSE [op_row EXCEPT !.matched = "Due"]

\* (variant: the expected timestamp is read before the HC number is looked up)
MatchRow_TimestampFirst(op_row, reports_hc_numbers, t) ==
    IF op_row.matched \in {"Published", "OP Error"} THEN op_row
    ELSE IF op_row.hc = "" THEN op_row
    ELSE IF op_row.date.s = "" \/ op_row.time.s = "" THEN op_row
    ELSE IF ~ExpectedParses(op_row) THEN op_row
    ELSE IF op_row.hc \in reports_hc_numbers
         THEN [op_row EXCEPT !.matched = "Published"]
    ELSE IF t > ExpectedDatetime(op_row)
         THEN [op_row EXCEPT !.matched = "Missing"]
         ELSE [op_row EXCEPT !.matched = "Due"]

\* One iteration of the loop over order_papers
MatchRow(op_row, reports_hc_numbers, t) ==
    IF op_row.matched \in {"Published", "OP Error"} THEN op_row
    ELSE IF op_row.hc = "" THEN op_row
    ELSE IF op_row.hc \in reports_hc_numbers
         THEN [op_row EXCEPT !.matched = "Published"]
    ELSE IF op_row.date.s = "" \/ op_row.time.s = "" THEN op_row
    ELSE IF ~ExpectedParses(op_row) THEN op_row
    ELSE IF t > ExpectedDatetime(op_row)
         THEN [op_row EXCEPT !.matched = "Missing"]
         ELSE [op_row EXCEPT !.matched = "Due"]

\* match_order_papers_to_reports(order_papers, reports), t being datetime.now()
match_order_papers_to_reports(order_papers, reports, t) ==
    [i \in 1..Len(order_papers) |->
        MatchRow(order_papers[i], ReportsHcNumbers(reports), t)]

\* --------------------------------------------------- the monitor's run
\* (variant: the rows are added to the file instead of replacing it)
write_csv_file_Append(file, rows) == file \o rows

\* write_csv_file(filename, rows): nothing is written for an empty table
write_csv_file(file, rows) == IF rows = <<>> THEN file ELSE rows

\* 1-2: load the tables, take in the feed, append the scan record
MonitorIntake(feeds, clock, max_runs) ==
    /\ pc = "idle"
    /\ runs < max_runs
    /\ \E f \in feeds, t \in clock :
          LET r == filter_and_process_reports(f, reportsFile, scansFile)
          IN  /\ feed' = f
              /\ now' = t
              /\ wall_clock' = t
              /\ new_rows' = r.rows
              /\ new_ids' = r.ids
              /\ all_reports' = reportsFile \o r.rows
              /\ all_scans' = Append(scansFile, ScanRecord(t, r.ids))
    /\ all_order_papers' = orderPapersFile
    /\ pc' = "orderpapers"
    /\ runs' = runs + 1
    /\ outcome' = "none"
    /\ UNCHANGED <<reportsFile, scansFile, orderPapersFile, match_now, csvReports, csvScans>>
    /\ UNCHANGED <<call, ret>>

\* 3: get_document_id_for_date raises once its retries are used up; the
\* script ends there, before any table is written
MonitorLookupFails ==
    /\ pc = "orderpapers"
    /\ all_reports' = <<>>
    /\ all_scans' = <<>>
    /\ all_order_papers' = <<>>
    /\ pc' = "pr"
    /\ outcome' = "aborted"
    /\ UNCHANGED <<reportsFile, scansFile, orderPapersFile, now, feed, new_ids,
                   new_rows, runs, match_now, wall_clock, csvReports, csvScans>>
    /\ UNCHANGED <<call, ret>>

\* (variant: a document without the table ends the run, as a failed lookup does)
MonitorOrderPapers_MissingTableFails(docs) ==
    /\ pc = "orderpapers"
    /\ \E doc \in docs :
          IF doc.kind = "notable"
          THEN /\ all_order_papers' = <<>>
               /\ pc' = "pr"
               /\ outcome' = "aborted"
          ELSE /\ all_order_papers' = all_order_papers \o
                      parse_committee_reports_published_today(doc, all_order_papers, DateOf(now))
               /\ pc' = "lateness"
               /\ outcome' = outcome
    /\ UNCHANGED <<reportsFile, scansFile, orderPapersFile, all_reports, all_scans,
                   now, feed, new_ids, new_rows, runs, match_now, wall_clock,
                   csvReports, csvScans>>
    /\ UNCHANGED <<call, ret>>

\* 3: the order paper of the day
MonitorOrderPapers(docs) ==
    /\ pc = "orderpapers"
    /\ \E doc \in docs :
          all_order_papers' = all_order_papers \o
              parse_committee_reports_published_today(doc, all_order_papers, DateOf(now))
    /\ pc' = "lateness"
    /\ UNCHANGED <<reportsFile, scansFile, orderPapersFile, all_reports, all_scans,
                   now, feed, new_ids, new_rows, outcome, runs, match_now, wall_clock,
                   csvReports, csvScans>>
    /\ UNCHANGED <<call, ret>>

\* (variant: lateness is computed on the files as the run found them)
MonitorLateness_BeforeIntake ==
    /\ pc = "lateness"
    /\ reportsFile' = write_csv_file(reportsFile, all_reports)
    /\ scansFile' = write_csv_file(scansFile, all_scans)
    /\ all_reports' = IF all_scans # <<>> /\ all_reports # <<>>
                      THEN calculate_lateness(reportsFile, scansFile)
                      ELSE all_reports
    /\ pc' = "match"
    /\ UNCHANGED <<orderPapersFile, all_scans, all_order_papers, now, feed, new_ids,
                   new_rows, outcome, runs, match_now, wall_clock, csvReports, csvScans>>
    /\ UNCHANGED <<call, ret>>

\* 4: the intermediate files, then calculate_lateness on them
MonitorLateness ==
    /\ pc = "lateness"
    /\ reportsFile' = write_csv_file(reportsFile, all_reports)
    /\ scansFile' = write_csv_file(scansFile, all_scans)
    /\ all_reports' = IF all_scans # <<>> /\ all_reports # <<>>
                      THEN calculate_lateness(reportsFile', scansFile')
                      ELSE all_reports
    /\ pc' = "match"
    /\ UNCHANGED <<orderPapersFile, all_scans, all_order_papers, now, feed, new_ids,
                   new_rows, outcome, runs, match_now, wall_clock, csvReports, csvScans>>
    /\ UNCHANGED <<call, ret>>

\* 5: match order papers to reports; the matcher reads the clock itself
MonitorMatch(readings) ==
    /\ pc = "match"
    /\ IF all_order_papers # <<>> /\ all_reports # <<>>
       THEN \E t \in readings :
               /\ match_now' = t
               /\ wall_clock' = t
               /\ all_order_papers' =
                      match_order_papers_to_reports(all_order_papers, all_reports, t)
       ELSE UNCHANGED <<match_now, wall_clock, all_order_papers>>
    /\ pc' = "write"
    /\ UNCHANGED <<reportsFile, scansFile, orderPapersFile, all_reports, all_scans,
                   now, feed, new_ids, new_rows, outcome, runs, csvReports, csvScans>>
    /\ UNCHANGED <<call, ret>>

\* 6: write the final files; the process ends
MonitorWrite ==
    /\ pc = "write"
    /\ reportsFile' = write_csv_file(reportsFile, all_reports)
    /\ scansFile' = write_csv_file(scansFile, all_scans)
    /\ orderPapersFile' = write_csv_file(orderPapersFile, all_order_papers)
    /\ all_reports' = <<>>
    /\ all_scans' = <<>>
    /\ all_order_papers' = <<>>
    /\ match_now' = 0
    /\ pc' = "pr"
    /\ outcome' = "completed"
    /\ UNCHANGED <<now, feed, new_ids, new_rows, runs, wall_clock, csvReports, csvScans>>
    /\ UNCHANGED <<call, ret>>

\* ------------------------------------- parliament_reports.py, same poll
\* filter_and_process_reports(api_url, csv_filename, scans_csv_filename):
\* intake, record_reports, record_scan, calculate_lateness
PRRun ==
    /\ pc = "pr"
    /\ LET r == ProcessItems(feed, PR_get_scanned_publication_ids(csvScans),
                             get_existing_ids_from_csv(csvReports), <<>>, <<>>)
           scans1 == Append(csvScans, ScanRecord(now, r.ids))
       IN  /\ csvScans' = scans1
           /\ csvReports' = PR_calculate_lateness(csvReports \o r.rows, scans1)
    /\ pc' = "idle"
    /\ UNCHANGED <<reportsFile, scansFile, orderPapersFile, all_reports, all_scans,
                   all_order_papers, now, feed, new_ids, new_rows, outcome, runs,
                   match_now, wall_clock>>
    /\ UNCHANGED <<call, ret>>

\* ------------------------------------------------------- specifications
\* A run starts from the tables on disk; no process is running
RunInit(reports, scans, order_papers) ==
    /\ reportsFile = reports
    /\ scansFile = scans
    /\ orderPapersFile = order_papers
    /\ all_reports = <<>>
    /\ all_scans = <<>>
    /\ all_order_papers = <<>>
    /\ pc = "idle"
    /\ now = 0
    /\ feed = <<>>
    /\ new_ids = <<>>
    /\ new_rows = <<>>
    /\ outcome = "none"
    /\ runs = 0
    /\ match_now = 0
    /\ wall_clock = 0
    /\ csvReports = <<>>
    /\ csvScans = <<>>

InitWith(reports, scans, order_papers) ==
    /\ RunInit(reports, scans, order_papers)
    /\ call = NoCall
    /\ ret = NoReturn

\* A function called on its own, with arguments from calls
CallInit(calls) ==
    /\ RunInit(<<>>, <<>>, <<>>)
    /\ call \in calls
    /\ ret = NoReturn

\* No file exists before the first run
Init == InitWith(<<>>, <<>>, <<>>)

\* What datetime.now() can read at the next poll: any instant, or (Steady)
\* the instant of the last poll or the tick after it
Steady == {now, now + 1} \cap Times

\* Publication intake: every feed, no order paper on the polled days, the
\* business-document lookup answers
Next ==
    \/ MonitorIntake(Feeds, Steady, MaxRuns)
    \/ MonitorOrderPapers(NoDocs)
    \/ MonitorLateness
    \/ MonitorMatch(Times)
    \/ MonitorWrite
    \/ PRRun

Spec == Init /\ [][Next]_vars

\* Lateness: few feeds, every clock reading
LatenessNext ==
    \/ MonitorIntake(LatenessFeeds, Times, MaxRuns)
    \/ MonitorOrderPapers(NoDocs)
    \/ MonitorLateness
    \/ MonitorMatch(Times)
    \/ MonitorWrite
    \/ PRRun

LatenessSpec == Init /\ [][LatenessNext]_vars

\* Order paper intake: a Reports table that is empty or holds one report,
\* few feeds, every document, a lookup that can fail
ReportB == [id |-> Id2, hc |-> "11", house |-> "Joint", pub |-> 1,
            lateMin |-> Unset, lateMax |-> TimedeltaStr(0)]
ScanB == [t |-> 1, ids |-> Id2]

OrderPaperInit ==
    \/ InitWith(<<>>, <<>>, <<>>)
    \/ InitWith(<<ReportB>>, <<ScanB>>, <<>>)

OrderPaperNext ==
    \/ MonitorIntake(OrderPaperFeeds, Steady, OrderPaperRuns)
    \/ MonitorLookupFails
    \/ MonitorOrderPapers(Docs)
    \/ MonitorLateness
    \/ MonitorMatch(Times)
    \/ MonitorWrite
    \/ PRRun

OrderPaperSpec == OrderPaperInit /\ [][OrderPaperNext]_vars

\* Matcher: an Order Papers table that exists before the first run, with one
\* entry in any state (hand-edited ones included), no new order paper
Statuses == {"", "Due", "Missing", "Published", "OP Error"}

ExistingEntries ==
    { [committee |-> "Ca", hc |-> h, date |-> dt[1], time |-> dt[2], matched |-> m] :
        h \in {"", "10"},
        dt \in { <<DateStr(0), TimeStr(1)>>, <<JunkText, TimeStr(0)>>,
                 <<DateStr(1), NoText>> },
        m \in Statuses }

MatcherInit ==
    \E e \in ExistingEntries :
        \/ InitWith(<<>>, <<>>, <<e>>)
        \/ InitWith(<<ReportB>>, <<ScanB>>, <<e>>)

MatcherNext ==
    \/ MonitorIntake(OrderPaperFeeds, Steady, OrderPaperRuns)
    \/ MonitorOrderPapers(NoDocs)
    \/ MonitorLateness
    \/ MonitorMatch(Times)
    \/ MonitorWrite
    \/ PRRun

MatcherSpec == MatcherInit /\ [][MatcherNext]_vars

\* Runs that go on: the scheduler starts the next run while runs remain and
\* every run that has started goes through its steps to the end; the tables
\* of MatcherSpec, or a Reports table that already holds a report with the
\* entry's HC number
PublishingSpec ==
    /\ \/ MatcherInit
       \/ \E e \in ExistingEntries :
              InitWith(<<[ReportB EXCEPT !.hc = "10"]>>, <<ScanB>>, <<e>>)
    /\ [][MatcherNext]_vars
    /\ WF_vars(MatcherNext)

\* A wall clock that never goes back: every reading of datetime.now(), by the
\* intake or by the matcher, is at or after the reading before it
Later == {t \in Times : t >= wall_clock}

ForwardClockNext ==
    \/ MonitorIntake(OrderPaperFeeds, Later, OrderPaperRuns)
    \/ MonitorLookupFails
    \/ MonitorOrderPapers(Docs)
    \/ MonitorLateness
    \/ MonitorMatch(Later)
    \/ MonitorWrite
    \/ PRRun

ForwardClockSpec == OrderPaperInit /\ [][ForwardClockNext]_vars

\* The business document of every polled day lacks the 'Committee Reports
\* Published Today' table; the Order Papers table exists before the first run
MissingTableNext ==
    \/ MonitorIntake(OrderPaperFeeds, Steady, OrderPaperRuns)
    \/ MonitorOrderPapers({NoTable})
    \/ MonitorLateness
    \/ MonitorMatch(Times)
    \/ MonitorWrite
    \/ PRRun

MissingTableSpec == MatcherInit /\ [][MissingTableNext]_vars

\* The business-document lookup on its own: every listing, every target date
LookupCalls ==
    {[fn |-> "get_document_id_for_date", target |-> d, results |-> l] :
        d \in 0..MaxDate, l \in Listings}

Call_get_document_id_for_date ==
    /\ call.fn = "get_document_id_for_date"
    /\ ret = NoReturn
    /\ ret' = Returned(get_document_id_for_date(call.target, call.results))
    /\ UNCHANGED <<reportsFile, scansFile, orderPapersFile, all_reports, all_scans,
                   all_order_papers, pc, now, feed, new_ids, new_rows, outcome, runs,
                   match_now, wall_clock, csvReports, csvScans, call>>

LookupSpec == CallInit(LookupCalls) /\ [][Call_get_document_id_for_date]_vars

\* The network calls on their own: every limit on the attempts up to
\* MaxAttempts, every sequence of answers
RetryCalls ==
    {[fn |-> f, max |-> n, responses |-> r] :
        f \in {"fetch_json_data", "get_page"}, n \in 0..MaxAttempts,
        r \in [1..MaxAttempts -> StatusCodes]}

Call_fetch_json_data ==
    /\ call.fn = "fetch_json_data"
    /\ ret = NoReturn
    /\ ret' = Returned(fetch_json_data(call.responses, call.max))
    /\ UNCHANGED <<reportsFile, scansFile, orderPapersFile, all_reports, all_scans,
                   all_order_papers, pc, now, feed, new_ids, new_rows, outcome, runs,
                   match_now, wall_clock, csvReports, csvScans, call>>

Call_get_page ==
    /\ call.fn = "get_page"
    /\ ret = NoReturn
    /\ ret' = Returned(get_page(call.responses, call.max))
    /\ UNCHANGED <<reportsFile, scansFile, orderPapersFile, all_reports, all_scans,
                   all_order_papers, pc, now, feed, new_ids, new_rows, outcome, runs,
                   match_now, wall_clock, csvReports, csvScans, call>>

RetrySpec == CallInit(RetryCalls) /\ [][Call_fetch_json_data \/ Call_get_page]_vars

\* The extractor on its own: the text of a date cell is a day and a month
\* name, with or without a clock time before it, a weekday, a year and a
\* clock time after it; the order paper is of 15 January, 12 March or 1 June
\* 2024
ClockBefore == {<<>>, <<"9", ".", "3", "0", "a", "m", " ">>}
WeekdayBefore == {<<>>, <<"W", "e", "d", " ">>}
DayTexts == {<<"1", "2">>, <<"3", "1">>}
MonthTexts == {<<"M", "a", "r", "c", "h">>, <<"A", "p", "r", "i", "l">>}
YearAfter == {<<>>, <<" ", "2", "0", "2", "5">>}
ClockAfter == {<<>>, <<",", " ", "2", ":", "3", "0", "p", "m">>}
Fragment(pre, wd, day, month, year, post) ==
    pre \o wd \o day \o <<" ">> \o month \o year \o post
Fragments ==
    {Fragment(pre, wd, day, month, year, post) :
        pre \in ClockBefore, wd \in WeekdayBefore, day \in DayTexts,
        month \in MonthTexts, year \in YearAfter, post \in ClockAfter}
OpDates == {Date(2024, 1, 15), Date(2024, 3, 12), Date(2024, 6, 1)}

ExtractCalls ==
    {[fn |-> "extract", s |-> f, op_date |-> d] : f \in Fragments, d \in OpDates}

\* pub_date = _parse_date(date_str, op_date); pub_time = _parse_time(date_str)
Call_parse_date_and_time ==
    /\ call.fn = "extract"
    /\ ret = NoReturn
    /\ ret' = LET pub_date == parse_date(call.s, call.op_date)
              IN  IF pub_date.kind = "raise" THEN pub_date
                  ELSE Returned([pub_date |-> pub_date.v, pub_time |-> parse_time(call.s)])
    /\ UNCHANGED <<reportsFile, scansFile, orderPapersFile, all_reports, all_scans,
                   all_order_papers, pc, now, feed, new_ids, new_rows, outcome, runs,
                   match_now, wall_clock, csvReports, csvScans, call>>

ExtractSpec == CallInit(ExtractCalls) /\ [][Call_parse_date_and_time]_vars

\* _parse_time on its own: the text is an hour, then minutes or none after
\* a colon, a full stop or a middle dot, then a meridiem or none
TimeCalls ==
    {[fn |-> "parse_time", h |-> h, m |-> m, ampm |-> ampm] :
        h \in {<<"0">>, <<"9">>, <<"0", "9">>, <<"1", "2">>, <<"1", "3">>,
                <<"2", "3">>, <<"2", "4">>},
        m \in {<<>>, <<":", "0", "0">>, <<".", "3", "0">>, <<"MIDDOT", "5", "9">>,
                <<":", "6", "0">>},
        ampm \in {<<>>, <<"a", "m">>, <<"p", "m">>, <<" ", "P", "M">>}}

Call_parse_time ==
    /\ call.fn = "parse_time"
    /\ ret = NoReturn
    /\ ret' = Returned(parse_time(call.h \o call.m \o call.ampm))
    /\ UNCHANGED <<reportsFile, scansFile, orderPapersFile, all_reports, all_scans,
                   all_order_papers, pc, now, feed, new_ids, new_rows, outcome, runs,
                   match_now, wall_clock, csvReports, csvScans, call>>

TimeSpec == CallInit(TimeCalls) /\ [][Call_parse_time]_vars

\* The hyphen-divided title splitter on its own: descriptions made of a left
\* text, a divider or none, and a right text
OrdinalTexts ==
    { <<"5", "8", "t", "h", " ", "R", "e", "p", "o", "r", "t">>,
      <<"1", "s", "t", " ", "S", "p", "e", "c", "i", "a", "l", " ", "R", "e", "p", "o", "r", "t">>,
      <<"2", "N", "D", " ", "r", "e", "p", "o", "r", "t">> }
OtherTexts ==
    { <<"5", "8", " ", "R", "e", "p", "o", "r", "t">>,
      <<"5", "8", "t", "h", " ", "R", "e", "p", "o", "r", "t", "s">>,
      <<"A", "n", "n", "u", "a", "l">>, <<>> }
DividerTexts ==
    { <<" ">>, <<"-">>, <<" ", "-", " ">>, <<":", " ">>,
      <<" ", "ENDASH", " ">>, <<"EMDASH">> }
TitleTexts ==
    { <<"A", "n", "n", "u", "a", "l", " ", "R", "e", "v", "i", "e", "w">>,
      <<"A", " ", "-", " ", "B">>, <<>> }
Descriptions ==
    {left \o divider \o right :
        left \in OrdinalTexts \cup OtherTexts, divider \in DividerTexts,
        right \in TitleTexts}

SplitCalls == {[fn |-> "split_report_title", input_string |-> d] : d \in Descriptions}

Call_split_report_title ==
    /\ call.fn = "split_report_title"
    /\ ret = NoReturn
    /\ ret' = Returned(PR_split_report_title(call.input_string))
    /\ UNCHANGED <<reportsFile, scansFile, orderPapersFile, all_reports, all_scans,
                   all_order_papers, pc, now, feed, new_ids, new_rows, outcome, runs,
                   match_now, wall_clock, csvReports, csvScans, call>>

SplitSpec == CallInit(SplitCalls) /\ [][Call_split_report_title]_vars

\* =================================================================== claims
IdsOf(scan) == Range(ParseIds(scan.ids))
ScansWith(scans, pub_id) == {k \in 1..Len(scans) : pub_id \in IdsOf(scans[k])}
FirstSeenIn(scans, pub_id, k) ==
    /\ k \in ScansWith(scans, pub_id)
    /\ \A j \in 1..(k - 1) : j \notin ScansWith(scans, pub_id)
MaxOf(S) == CHOOSE x \in S : \A y \in S : y <= x
Finished == pc = "idle" /\ runs > 0

\* C1: first-seen semantics of the scan ledger: no identifier is in the
\* identifier lists of two scan events, in the ledger on disk and in the
\* ledger a run is about to write.
FirstSeenOnce(scans) ==
    \A i, j \in 1..Len(scans) : i < j => IdsOf(scans[i]) \cap IdsOf(scans[j]) = {}
C1_FirstSeenOnce == FirstSeenOnce(scansFile) /\ FirstSeenOnce(all_scans)

\* a completed poll whose feed still listed an identifier that an earlier
\* scan event had recorded
C1_Witness ==
    /\ pc = "pr"
    /\ outcome = "completed"
    /\ Len(scansFile) >= 2
    /\ \E n \in 1..Len(feed) :
          /\ feed[n].id \in IdsOf(scansFile[1])
          /\ new_ids = <<>>

\* C2: intake is idempotent: on the tables a completed run has written, the
\* intake of the same feed returns no row and no new identifier.
C2_IntakeIdempotent ==
    (pc = "pr" /\ outcome = "completed") =>
        LET again == filter_and_process_reports(feed, reportsFile, scansFile)
        IN  again.rows = <<>> /\ again.ids = <<>>

\* C3: the Publication ID is unique in the Report table.
C3_UniquePublicationId ==
    \A i, j \in 1..Len(reportsFile) : i < j => reportsFile[i].id # reportsFile[j].id

\* C4: 'Late by max' of a report whose identifier is in the ledger is the
\* time of the first scan event holding the identifier minus the publication
\* time, in both scripts' tables.
LateMaxIs(reports, scans) ==
    \A i \in 1..Len(reports), k \in 1..Len(scans) :
        FirstSeenIn(scans, reports[i].id, k) =>
            reports[i].lateMax = <<scans[k].t - reports[i].pub>>
C4_LateByMax ==
    Finished => LateMaxIs(reportsFile, scansFile) /\ LateMaxIs(csvReports, csvScans)

\* a report first seen in a later scan event than the first of the ledger,
\* taken at another time, with its upper bound written by both scripts
C4_Witness ==
    /\ Finished
    /\ \E i \in 1..Len(reportsFile), k \in 2..Len(scansFile) :
          /\ FirstSeenIn(scansFile, reportsFile[i].id, k)
          /\ scansFile[1].t # scansFile[k].t
          /\ reportsFile[i].lateMax # Unset
    /\ \E i \in 1..Len(csvReports) : csvReports[i].lateMax # Unset

\* C5: 'Late by min' is taken from the latest scan event that is before the
\* first scan holding the identifier and after the publication time, and is
\* unset when there is none.
LateMinIs(reports, scans) ==
    \A i \in 1..Len(reports), k \in 1..Len(scans) :
        FirstSeenIn(scans, reports[i].id, k) =>
            LET between == {scans[j].t : j \in {n \in 1..(k - 1) : scans[n].t > reports[i].pub}}
            IN  IF between = {} THEN reports[i].lateMin = Unset
                ELSE reports[i].lateMin = <<MaxOf(between) - reports[i].pub>>
C5_LateByMin ==
    Finished => LateMinIs(reportsFile, scansFile) /\ LateMinIs(csvReports, csvScans)

\* C6: 'Late by min' is unset or strictly less than 'Late by max'.
MinBelowMax(reports) ==
    \A i \in 1..Len(reports) :
        \/ reports[i].lateMin = Unset
        \/ /\ reports[i].lateMax # Unset
           /\ reports[i].lateMin[1] < reports[i].lateMax[1]
C6_MinBelowMax == Finished => MinBelowMax(reportsFile) /\ MinBelowMax(csvReports)

\* C7: lateness is write-once: a report whose 'Late by max' is set keeps
\* both lateness fields in every later step, in both scripts' tables.
WriteOnce(reports, reportsNext) ==
    \A i \in 1..Len(reports) :
        reports[i].lateMax # Unset =>
            /\ i <= Len(reportsNext)
            /\ reportsNext[i].lateMax = reports[i].lateMax
            /\ reportsNext[i].lateMin = reports[i].lateMin
C7_WriteOnce ==
    [][WriteOnce(reportsFile, reportsFile') /\ WriteOnce(csvReports, csvReports')]_vars

\* The Order Paper table as it stands: in memory during a run, else on disk
OrderPaperTable == IF pc \in {"idle", "pr"} THEN orderPapersFile ELSE all_order_papers
MatcherRan ==
    /\ pc = "write"
    /\ all_order_papers # <<>>
    /\ all_reports # <<>>

\* C8: terminal statuses are absorbing: an entry that is Published or OP
\* Error keeps its status in every step of every later run, whatever the
\* Report table holds.
Absorbing(table, tableNext) ==
    \A i \in 1..Len(table) :
        table[i].matched \in {"Published", "OP Error"} =>
            /\ i <= Len(tableNext)
            /\ tableNext[i].matched = table[i].matched
C8_TerminalAbsorbing == [][Absorbing(OrderPaperTable, OrderPaperTable')]_vars

\* the matcher has just run over a Published entry whose HC number no report has
C8_Witness ==
    /\ MatcherRan
    /\ \E i \in 1..Len(all_order_papers) :
          /\ all_order_papers[i].matched = "Published"
          /\ all_order_papers[i].hc # ""
          /\ all_order_papers[i].hc \notin ReportsHcNumbers(all_reports)

\* C9: one evaluation of the matcher gives every non-terminal entry with an
\* HC number the status Published when a report has the HC number, else
\* Missing when the expected timestamp parses and is before now, else Due
\* when it parses, and leaves the status alone when it does not parse.
ExpectedStatus(e, reports, t) ==
    IF e.hc \in {reports[i].hc : i \in 1..Len(reports)} THEN "Published"
    ELSE IF e.date.s = "ok" /\ e.time.s = "ok"
         THEN IF e.date.v * TicksPerDay + e.time.v < t THEN "Missing" ELSE "Due"
         ELSE e.matched
C9_MatcherRule ==
    [][(pc = "match" /\ all_order_papers # <<>> /\ all_reports # <<>>) =>
          \A i \in 1..Len(all_order_papers) :
              (all_order_papers[i].matched \notin {"Published", "OP Error"}
                  /\ all_order_papers[i].hc # "") =>
                  all_order_papers'[i].matched =
                      ExpectedStatus(all_order_papers[i], all_reports, match_now')]_vars

\* the matcher has just marked Missing an entry that no report matches
C9_Witness ==
    /\ MatcherRan
    /\ \E i \in 1..Len(all_order_papers) :
          /\ all_order_papers[i].matched = "Missing"
          /\ all_order_papers[i].hc \notin ReportsHcNumbers(all_reports)
          /\ ExpectedDatetime(all_order_papers[i]) < match_now

\* C10: after every completed run, every entry with an HC number and a
\* timestamp that parses has one of the statuses Due, Missing, Published,
\* OP Error.
C10_EvaluatedEveryRun ==
    (pc = "pr" /\ outcome = "completed") =>
        \A i \in 1..Len(orderPapersFile) :
            (orderPapersFile[i].hc # "" /\ ExpectedParses(orderPapersFile[i])) =>
                orderPapersFile[i].matched \in {"Due", "Missing", "Published", "OP Error"}

\* C11: with a wall clock that never goes back, the status of every Order
\* Paper Entry only moves forward in the order empty, Due, Missing, Published
\* in every step of every run (steps may be skipped), and a terminal status
\* (Published, OP Error) is never left.
StatusRank(m) ==
    IF m = "" THEN 0 ELSE IF m = "Due" THEN 1 ELSE IF m = "Missing" THEN 2 ELSE 3
Forward(table, tableNext) ==
    \A i \in 1..Len(table) :
        /\ i <= Len(tableNext)
        /\ IF table[i].matched \in {"Published", "OP Error"}
           THEN tableNext[i].matched = table[i].matched
           ELSE /\ tableNext[i].matched \in {"", "Due", "Missing", "Published"}
                /\ StatusRank(tableNext[i].matched) >= StatusRank(table[i].matched)
C11_StatusForward == [][Forward(OrderPaperTable, OrderPaperTable')]_vars

\* the matcher has just marked Missing an entry that the run before left Due
C11_Witness ==
    /\ MatcherRan
    /\ \E i \in 1..Len(orderPapersFile) :
          /\ orderPapersFile[i].matched = "Due"
          /\ all_order_papers[i].matched = "Missing"

\* C12: no two entries of the Order Paper table have the same composite key
\* (committee name, HC number), and taking in the same document again, into
\* the table its first intake produced, adds no entry.
UniqueCompositeKey(table) ==
    \A i, j \in 1..Len(table) :
        i < j => <<table[i].committee, table[i].hc>> # <<table[j].committee, table[j].hc>>
IntakeTwiceAddsNothing(table, today) ==
    \A doc \in Docs :
        LET first == table \o parse_committee_reports_published_today(doc, table, today)
        IN  parse_committee_reports_published_today(doc, first, today) = <<>>
C12_NoDuplicateEntries ==
    /\ UniqueCompositeKey(OrderPaperTable)
    /\ Finished => IntakeTwiceAddsNothing(orderPapersFile, DateOf(now))

\* C13: every row of the Report table, on disk and in memory, in both
\* scripts, has house Commons or Joint.
HousesAllowed(reports) ==
    \A i \in 1..Len(reports) : reports[i].house \in {"Commons", "Joint"}
C13_HouseCommonsOrJoint ==
    /\ HousesAllowed(reportsFile)
    /\ HousesAllowed(all_reports)
    /\ HousesAllowed(csvReports)

\* both scripts have taken in a feed with a Lords item, into a Report table
\* that holds rows
C13_Witness ==
    /\ Finished
    /\ \E n \in 1..Len(feed) : feed[n].house = "Lords"
    /\ reportsFile # <<>>
    /\ csvReports # <<>>

\* C14: every item of the feed whose identifier is not empty and is in no
\* scan event of the ledger is in the new-identifier list of the intake,
\* whether or not the item gives a Report row (monitor: new_scan_ids;
\* parliament_reports: the identifier list of the scan event it appends).
NotYetScanned(pub_id, scans) ==
    pub_id # <<>> /\ \A k \in 1..Len(scans) : pub_id \notin IdsOf(scans[k])
C14_NewIdsFromRawStream ==
    [][/\ pc = "idle" =>
            \A n \in 1..Len(feed') :
                NotYetScanned(feed'[n].id, scansFile) => feed'[n].id \in Range(new_ids')
       /\ pc = "pr" =>
            \A n \in 1..Len(feed) :
                NotYetScanned(feed[n].id, csvScans) =>
                    feed[n].id \in IdsOf(csvScans'[Len(csvScans')])]_vars

\* the intake has just returned the identifiers of a Lords item and of an
\* item without a publication date as new, and no row
C14_Witness ==
    /\ pc = "orderpapers"
    /\ new_rows = <<>>
    /\ \E n, m \in 1..Len(feed) :
          /\ feed[n].house = "Lords"
          /\ feed[n].id \in Range(new_ids)
          /\ feed[m].start.s = ""
          /\ feed[m].id \in Range(new_ids)

\* C15: when the business-document lookup fails in a run, the Report rows
\* and the scan event of that run's publication intake are in the Reports
\* and Scans tables on disk when the run ends.
C15_IntakePersistedOnLookupFailure ==
    (pc = "pr" /\ outcome = "aborted") =>
        /\ \A n \in 1..Len(new_rows) :
              \E i \in 1..Len(reportsFile) : reportsFile[i].id = new_rows[n].id
        /\ scansFile # <<>>
        /\ scansFile[Len(scansFile)] = ScanRecord(now, new_ids)

\* C16: the scan ledger is append-only, one event per completed run: the
\* monitor's ledger changes only when the run writes its tables, by one event
\* added at the end (this run's time and new identifiers); the ledger of
\* parliament_reports changes only in its run, in the same way; every
\* earlier event stays as it is.
AppendsOne(scans, scansNext, t) ==
    /\ Len(scansNext) = Len(scans) + 1
    /\ SubSeq(scansNext, 1, Len(scans)) = scans
    /\ scansNext[Len(scansNext)].t = t
C16_LedgerAppendOnly ==
    [][/\ IF pc = "lateness" THEN AppendsOne(scansFile, scansFile', now)
                              ELSE scansFile' = scansFile
       /\ IF pc = "pr" THEN AppendsOne(csvScans, csvScans', now)
                       ELSE csvScans' = csvScans]_vars

\* a completed run has added an event without identifiers behind an event
\* that has some
C16_Witness ==
    /\ pc = "pr"
    /\ outcome = "completed"
    /\ Len(scansFile) >= 2
    /\ scansFile[1].ids # <<>>
    /\ scansFile[Len(scansFile)].ids = <<>>

\* C17: the business-document lookup returns the identifier of a document
\* whose business date is the target date and whose note holds the marker,
\* and returns none when the listing has no such document.
IsTargetDocument(item, target) ==
    item.bd = <<target>> /\ item.notes = "marked"
C17_LookupOnlyTargetDate ==
    (call.fn = "get_document_id_for_date" /\ ret.kind = "return") =>
        IF \E k \in 1..Len(call.results) : IsTargetDocument(call.results[k], call.target)
        THEN ret.v # <<>> =>
                \E k \in 1..Len(call.results) :
                    /\ IsTargetDocument(call.results[k], call.target)
                    /\ call.results[k].id = ret.v
        ELSE ret.v = <<>>

\* C18: for a cell text whose date is day 31 and April (a day the month does
\* not have), with or without a year, the date parser raises nothing and
\* gives the 'not present' marker.
C18_InvalidDayNeverRaises ==
    (/\ call.fn = "extract"
     /\ ret # NoReturn
     /\ \E pre \in ClockBefore, wd \in WeekdayBefore, year \in YearAfter,
           post \in ClockAfter :
            call.s = Fragment(pre, wd, <<"3", "1">>, <<"A", "p", "r", "i", "l">>,
                              year, post)) =>
        /\ ret.kind = "return"
        /\ ret.v.pub_date = <<>>

\* C19: from a text made of an optional weekday, a day, a month name and the
\* clock time 2:30pm the extractor gives the date with that day and month and
\* the time 14:30; from a text made of a day and a month name only it gives
\* that date and no time.
NamedDays == {<<<<"1", "2">>, 12>>, <<<<"3", "1">>, 31>>}
NamedMonths == {<<<<"M", "a", "r", "c", "h">>, 3>>, <<<<"A", "p", "r", "i", "l">>, 4>>}
GivesDate(r, month, day) ==
    /\ r.kind = "return"
    /\ r.v.pub_date # <<>>
    /\ r.v.pub_date[1].m = month
    /\ r.v.pub_date[1].d = day
C19_DateAndClockTime ==
    (call.fn = "extract" /\ ret # NoReturn) =>
        \A day \in NamedDays, month \in NamedMonths :
            DateExists(2024, month[2], day[2]) =>
                /\ \A wd \in WeekdayBefore :
                      call.s = Fragment(<<>>, wd, day[1], month[1], <<>>,
                                        <<",", " ", "2", ":", "3", "0", "p", "m">>) =>
                          /\ GivesDate(ret, month[2], day[2])
                          /\ ret.v.pub_time = <<[h |-> 14, m |-> 30]>>
                /\ call.s = Fragment(<<>>, <<>>, day[1], month[1], <<>>, <<>>) =>
                      /\ GivesDate(ret, month[2], day[2])
                      /\ ret.v.pub_time = <<>>

\* C20: the hyphen-divided title splitter gives the stripped texts left and
\* right of the first divider when the left one is an ordinal ('<digits>
\* <st|nd|rd|th> [Special] Report', any case), and otherwise an empty ordinal
\* with the input string as it came.
C20_SplitsOnFirstDivider ==
    (call.fn = "split_report_title" /\ ret # NoReturn) =>
        LET s == call.input_string
            dividers == {i \in 1..Len(s) : s[i] \in {"-", "ENDASH", "EMDASH", ":"}}
            k == CHOOSE i \in dividers : \A j \in dividers : i <= j
        IN  IF dividers # {} /\ Strip(SubSeq(s, 1, k - 1)) \in OrdinalTexts
            THEN ret = Returned(<< Strip(SubSeq(s, 1, k - 1)),
                                   Strip(SubSeq(s, k + 1, Len(s))) >>)
            ELSE ret = Returned(<< <<>>, s >>)

\* a description with two dividers has been split at the first one
C20_Witness ==
    /\ call.fn = "split_report_title"
    /\ ret.kind = "return"
    /\ ret.v[1] \in OrdinalTexts
    /\ \E i \in 1..Len(ret.v[2]) : ret.v[2][i] = "-"

\* C21: a business document without the 'Committee Reports Published Today'
\* table is not a failure: the intake returns no entries, the run goes on
\* through lateness and matching to its end, and the Order Paper table keeps
\* the entries it had, none added and none removed.
SameEntries(table, tableNext) ==
    /\ Len(tableNext) = Len(table)
    /\ \A i \in 1..Len(table) :
          [tableNext[i] EXCEPT !.matched = ""] = [table[i] EXCEPT !.matched = ""]
C21_MissingTableNotFailure ==
    /\ parse_committee_reports_published_today(NoTable, OrderPaperTable, DateOf(now)) = <<>>
    /\ pc \in {"lateness", "match", "write"} => SameEntries(orderPapersFile, all_order_papers)
    /\ pc = "pr" => outcome = "completed"

\* the matcher has run, in a run whose document had no table, over the
\* entries the run loaded
C21_Witness ==
    /\ MatcherRan
    /\ SameEntries(orderPapersFile, all_order_papers)
    /\ all_order_papers # orderPapersFile

\* C22: an item of the feed gives a new Report record exactly when its
\* identifier is not already in the Report table, its house is Commons or
\* Joint and its publication start timestamp is present and parses; the
\* records of the intake are those of the items that pass, in feed order,
\* with both lateness fields empty (monitor: rows_to_add; parliament_reports:
\* the rows it appends, before lateness is computed on them).
PassesChecks(item, table) ==
    /\ \A i \in 1..Len(table) : table[i].id # item.id
    /\ item.house \in {"Commons", "Joint"}
    /\ item.start.s = "iso"
RecordsOf(items, table) ==
    LET passing == SelectSeq(items, LAMBDA item : PassesChecks(item, table))
    IN  [n \in 1..Len(passing) |->
            [id |-> passing[n].id, hc |-> passing[n].hc, house |-> passing[n].house,
             pub |-> passing[n].start.t, lateMin |-> <<>>, lateMax |-> <<>>]]
WithoutLateness(rows) ==
    [n \in 1..Len(rows) |-> [rows[n] EXCEPT !.lateMin = <<>>, !.lateMax = <<>>]]
C22_RecordExactlyWhenChecksPass ==
    [][/\ pc = "idle" => new_rows' = RecordsOf(feed', reportsFile)
       /\ pc = "pr" =>
            WithoutLateness(csvReports') =
                WithoutLateness(csvReports) \o RecordsOf(feed, csvReports)]_vars

\* C23: within one run the steps come in the order intake, lateness,
\* matching: once lateness is computed, every Report whose identifier the
\* run's own scan event records has its 'Late by max' from that scan event,
\* and the table the matcher reads ends with the Reports the run added, so
\* that an entry with the HC number of one of them is Published in the same
\* run; parliament_reports computes lateness after recording the scan.
NewRowsAtEnd(reports) ==
    /\ Len(reports) >= Len(new_rows)
    /\ WithoutLateness(SubSeq(reports, Len(reports) - Len(new_rows) + 1, Len(reports)))
           = new_rows
C23_StepOrder ==
    /\ pc \in {"match", "write"} =>
          /\ NewRowsAtEnd(all_reports)
          /\ \A n \in 1..Len(all_reports) :
                 all_reports[n].id \in Range(new_ids) =>
                     all_reports[n].lateMax = <<now - all_reports[n].pub>>
    /\ MatcherRan =>
          \A i \in 1..Len(all_order_papers), n \in 1..Len(new_rows) :
              (all_order_papers[i].hc # "" /\ all_order_papers[i].hc = new_rows[n].hc) =>
                  all_order_papers[i].matched \in {"Published", "OP Error"}
    /\ Finished =>
          \A n \in 1..Len(csvReports) :
              csvReports[n].id \in IdsOf(csvScans[Len(csvScans)]) =>
                  csvReports[n].lateMax = <<csvScans[Len(csvScans)].t - csvReports[n].pub>>

\* the matcher has just marked Published an entry whose HC number a Report
\* added in this run has, and that Report has its 'Late by max' from the
\* run's scan event
C23_Witness ==
    /\ MatcherRan
    /\ \E i \in 1..Len(all_order_papers), n \in 1..Len(all_reports) :
          /\ orderPapersFile[i].matched # "Published"
          /\ all_order_papers[i].matched = "Published"
          /\ all_reports[n].hc = all_order_papers[i].hc
          /\ all_reports[n].id \in Range(new_ids)
          /\ all_reports[n].lateMax = <<now - all_reports[n].pub>>
          /\ n > Len(all_reports) - Len(new_rows)

\* C24: a network call answers a transient status code (429, 500, 502,
\* 503, 504) with another request while attempts remain, and never issues
\* more requests than its limit (max_retries for fetch_json_data,
\* retry_attempts for one page of get_document_id_for_date).
C24_RetriesTransientWithinLimit ==
    ret.kind = "return" =>
        /\ ret.v.requests <= call.max
        /\ (ret.v.requests >= 1 /\ call.responses[ret.v.requests] \in Transient) =>
              ret.v.requests = call.max

\* C25: _parse_time returns "" for an hour above 23 without a meridiem and
\* for a minute above 59; a time it returns has the minute of the text and
\* the hour of the text, plus 12 exactly when the meridiem is pm and the
\* hour is not 12, and lies within 00:00..23:59.
HourOf(c) == ToInt(c.h)
MinuteOf(c) == IF c.m = <<>> THEN 0 ELSE ToInt(Tail(c.m))
IsPm(c) == c.ampm \in {<<"p", "m">>, <<" ", "P", "M">>}
C25_ParseTimeRules ==
    ret.kind = "return" =>
        /\ (HourOf(call) > 23 /\ call.ampm = <<>>) => ret.v = <<>>
        /\ MinuteOf(call) > 59 => ret.v = <<>>
        /\ ret.v # <<>> =>
              /\ ret.v[1].h \in 0..23
              /\ ret.v[1].m \in 0..59
              /\ ret.v[1].m = MinuteOf(call)
              /\ ret.v[1].h =
                    IF IsPm(call) /\ HourOf(call) # 12
                    THEN HourOf(call) + 12 ELSE HourOf(call)

\* 9.30 pm has been read as 21:30
C25_Witness ==
    /\ ret.kind = "return"
    /\ call.fn = "parse_time"
    /\ IsPm(call) /\ HourOf(call) = 9 /\ MinuteOf(call) = 30
    /\ ret.v = <<[h |-> 21, m |-> 30]>>

\* C26: a date that _parse_date returns for a text without a year has the
\* day and month of the text and the year of the anchor date, or the year
\* after when the day and month in the anchor's year come before the anchor
\* date; it is never earlier than the anchor date.
Ordinal(d) == d.y * 10000 + d.m * 100 + d.d
C26_YearRoll ==
    (call.fn = "extract" /\ ret.kind = "return") =>
        \A pre \in ClockBefore, wd \in WeekdayBefore, post \in ClockAfter,
           day \in NamedDays, month \in NamedMonths :
            (/\ call.s = Fragment(pre, wd, day[1], month[1], <<>>, post)
             /\ ret.v.pub_date # <<>>) =>
                LET this == [y |-> call.op_date.y, m |-> month[2], d |-> day[2]]
                    next == [y |-> call.op_date.y + 1, m |-> month[2], d |-> day[2]]
                IN  /\ ret.v.pub_date[1] =
                          IF Ordinal(this) < Ordinal(call.op_date) THEN next ELSE this
                    /\ Ordinal(ret.v.pub_date[1]) >= Ordinal(call.op_date)

\* 12 March has been read, on the order paper of 1 June 2024, as 12 March 2025
C26_Witness ==
    /\ ret.kind = "return"
    /\ call.fn = "extract"
    /\ call.s = Fragment(<<"9", ".", "3", "0", "a", "m", " ">>, <<>>, <<"1", "2">>,
                         <<"M", "a", "r", "c", "h">>, <<>>, <<>>)
    /\ call.op_date = [y |-> 2024, m |-> 6, d |-> 1]
    /\ ret.v.pub_date = <<[y |-> 2025, m |-> 3, d |-> 12]>>

\* C27: an Order Paper Entry with an empty HC number is left exactly as it
\* is by every step of every run, the matcher's included, whatever the
\* Report table holds and whatever its expected timestamp and status are.
EmptyHcUntouched(table, tableNext) ==
    \A i \in 1..Len(table) :
        table[i].hc = "" => (i <= Len(tableNext) /\ tableNext[i] = table[i])
C27_EmptyHcSkipped == [][EmptyHcUntouched(OrderPaperTable, OrderPaperTable')]_vars

\* the matcher has just run, with reports in the table, over an entry without
\* HC number and without status whose expected timestamp has passed
C27_Witness ==
    /\ MatcherRan
    /\ \E i \in 1..Len(all_order_papers) :
          /\ all_order_papers[i].hc = ""
          /\ all_order_papers[i].matched = ""
          /\ ExpectedParses(all_order_papers[i])
          /\ ExpectedDatetime(all_order_papers[i]) < match_now

\* C28: every entry the table intake emits has a date and a time the matcher
\* can parse: the date found in the cell or else the date of the order
\* paper, the time found in the cell or else 00:01; so every entry of a
\* table that only the intake has filled parses, and one with an HC number
\* has a status once the matcher has evaluated it.
EmittedFrom(e, doc, today) ==
    LET op_date == IF doc.date = <<>> THEN today ELSE doc.date[1]
    IN  \E n \in 1..Len(doc.rows) :
            /\ e.committee = doc.rows[n].committee
            /\ e.hc = doc.rows[n].hc
            /\ e.date = [s |-> "ok",
                         v |-> IF doc.rows[n].date = <<>> THEN op_date
                               ELSE doc.rows[n].date[1]]
            /\ e.time = [s |-> "ok",
                         v |-> IF doc.rows[n].time = <<>> THEN SentinelTime
                               ELSE doc.rows[n].time[1]]
C28_IntakeEntriesParseable ==
    /\ \A doc \in Docs :
          LET emitted == parse_committee_reports_published_today(
                             doc, OrderPaperTable, DateOf(now))
          IN  \A k \in 1..Len(emitted) : EmittedFrom(emitted[k], doc, DateOf(now))
    /\ \A i \in 1..Len(OrderPaperTable) : ExpectedParses(OrderPaperTable[i])
    /\ MatcherRan =>
          \A i \in 1..Len(all_order_papers) :
              all_order_papers[i].hc # "" => all_order_papers[i].matched # ""

\* the matcher has just given a status to an entry taken in during this run
\* from a cell in which neither a date nor a time was found
C28_Witness ==
    /\ MatcherRan
    /\ \E i \in 1..Len(all_order_papers) :
          /\ i > Len(orderPapersFile)
          /\ all_order_papers[i].hc # ""
          /\ all_order_papers[i].date = DateStr(DateOf(now))
          /\ all_order_papers[i].time = TimeStr(SentinelTime)
          /\ all_order_papers[i].matched \in {"Due", "Missing"}

\* C29: at the end of every completed run every Report with a Publication
\* ID has the ID in some scan event of the ledger and has 'Late by max' set,
\* from the first scan event that holds the ID, also when the Report was
\* admitted by a later run than the one that first saw the ID (both scripts).
ScannedAndLate(reports, scans) ==
    \A i \in 1..Len(reports) :
        reports[i].id # <<>> =>
            /\ ScansWith(scans, reports[i].id) # {}
            /\ reports[i].lateMax # <<>>
            /\ \A k \in 1..Len(scans) :
                  FirstSeenIn(scans, reports[i].id, k) =>
                      reports[i].lateMax = <<scans[k].t - reports[i].pub>>
C29_EveryReportScanned ==
    /\ (pc = "pr" /\ outcome = "completed") => ScannedAndLate(reportsFile, scansFile)
    /\ Finished => ScannedAndLate(csvReports, csvScans)

\* both scripts hold a Report admitted by the latest run whose identifier an
\* earlier scan event, taken at another time, was the first to record
C29_Witness ==
    /\ Finished
    /\ outcome = "completed"
    /\ new_rows # <<>>
    /\ \E k \in 1..(Len(scansFile) - 1) :
          /\ FirstSeenIn(scansFile, new_rows[1].id, k)
          /\ scansFile[k].t # scansFile[Len(scansFile)].t
          /\ reportsFile[Len(reportsFile)].id = new_rows[1].id
          /\ reportsFile[Len(reportsFile)].lateMax = <<scansFile[k].t - new_rows[1].pub>>
    /\ \E k \in 1..(Len(csvScans) - 1) :
          /\ FirstSeenIn(csvScans, new_rows[1].id, k)
          /\ csvReports[Len(csvReports)].id = new_rows[1].id
          /\ csvReports[Len(csvReports)].lateMax = <<csvScans[k].t - new_rows[1].pub>>

\* C30: when an Order Paper Entry has an HC number, is not OP Error, and the
\* Report table holds a report with the same HC number, then the entry
\* becomes Published (by the end of the run in progress or of the next run)
\* and is Published ever after.
ReportTable == IF pc \in {"idle", "pr"} THEN reportsFile ELSE all_reports
Matchable ==
    /\ OrderPaperTable[1].hc # ""
    /\ OrderPaperTable[1].matched # "OP Error"
    /\ \E n \in 1..Len(ReportTable) : ReportTable[n].hc = OrderPaperTable[1].hc
C30_EventuallyPublished ==
    [](Matchable => <>[](OrderPaperTable[1].matched = "Published"))

\* the matcher has just marked Published an entry that the file holds with
\* another status and a timestamp that does not parse
C30_Witness ==
    /\ MatcherRan
    /\ orderPapersFile[1].matched \in {"", "Due", "Missing"}
    /\ ~ExpectedParses(orderPapersFile[1])
    /\ all_order_papers[1].matched = "Published"

\* C31: the two lateness engines agree: after every completed run of both
\* scripts over the same polls, with scan events appended in non-decreasing
\* time order, the Reports tables of the two scripts hold the same reports
\* with the same 'Late by min' and 'Late by max'.
SameLateness(reports, csv_reports) ==
    /\ Len(reports) = Len(csv_reports)
    /\ \A i \in 1..Len(reports) :
          /\ reports[i].id = csv_reports[i].id
          /\ reports[i].lateMin = csv_reports[i].lateMin
          /\ reports[i].lateMax = csv_reports[i].lateMax
C31_EnginesAgree == Finished => SameLateness(reportsFile, csvReports)

\* three scan events, a report first held by the second of them and both
\* lateness fields set
C31_Witness ==
    /\ Finished
    /\ Len(scansFile) >= 3
    /\ \E i \in 1..Len(reportsFile) :
          /\ FirstSeenIn(scansFile, reportsFile[i].id, 2)
          /\ reportsFile[i].lateMin # Unset
          /\ reportsFile[i].lateMax # Unset
          /\ csvReports[i].lateMax # Unset

====
